---- MODULE Spec2Model ----
(***************************************************************************)
(* Model of purrito's CatGt_wrapper (src/purrito/catgt.py): the option     *)
(* store, the stage setters, the flag serializer and the command builder.  *)
(*                                                                         *)
(* Python strings are sequences of one-character strings, so that          *)
(* formatting, joining and path handling are computed character by         *)
(* character.  Python values are tagged records [t |-> type, v |-> value]. *)
(* A dict is a sequence of entries [v |-> value, k |-> key] with distinct  *)
(* keys, in insertion order.                                               *)
(***************************************************************************)
EXTENDS Integers, Sequences, FiniteSets, TLC

(***************************************************************************)
(* Python values                                                           *)
(***************************************************************************)
None == [t |-> "None", v |-> <<>>]
PyBool(b) == [t |-> "bool", v |-> b]
PyInt(n) == [t |-> "int", v |-> n]
PyStr(s) == [t |-> "str", v |-> s]
PyList(l) == [t |-> "list", v |-> l]
PyTuple(l) == [t |-> "tuple", v |-> l]
PyTrue == PyBool(TRUE)
PyFalse == PyBool(FALSE)

\* Python truthiness, as used by `not x` and `if x:`
Truthy(x) ==
    CASE x.t = "None" -> FALSE
      [] x.t = "bool" -> x.v
      [] x.t = "int" -> x.v # 0
      [] x.t = "str" -> Len(x.v) > 0
      [] x.t = "list" -> Len(x.v) > 0
      [] x.t = "tuple" -> Len(x.v) > 0
      [] x.t = "dict" -> Len(x.v) > 0

Digits == <<"0", "1", "2", "3", "4", "5", "6", "7", "8", "9">>

RECURSIVE NatStr(_)
NatStr(n) == IF n < 10 THEN <<Digits[n + 1]>>
             ELSE NatStr(n \div 10) \o <<Digits[(n % 10) + 1]>>

\* str(n) for an int
IntStr(n) == IF n < 0 THEN <<"-">> \o NatStr(0 - n) ELSE NatStr(n)

\* str(x) / format(x, "") for the scalar values an option can hold
ToStr(x) ==
    CASE x.t = "str" -> x.v
      [] x.t = "int" -> IntStr(x.v)
      [] x.t = "bool" -> IF x.v THEN <<"T", "r", "u", "e">>
                                ELSE <<"F", "a", "l", "s", "e">>
      [] x.t = "None" -> <<"N", "o", "n", "e">>

\* sep.join(parts) for a sequence of strings
RECURSIVE Join(_, _)
Join(sep, parts) ==
    IF Len(parts) = 0 THEN <<>>
    ELSE IF Len(parts) = 1 THEN parts[1]
    ELSE parts[1] \o sep \o Join(sep, Tail(parts))

StartsWith(s, p) == Len(s) >= Len(p) /\ SubSeq(s, 1, Len(p)) = p

\* s.replace(a, b) for single characters a and b
ReplaceChar(s, a, b) == [i \in 1..Len(s) |-> IF s[i] = a THEN b ELSE s[i]]

(***************************************************************************)
(* dict: insertion-ordered mapping                                         *)
(***************************************************************************)
Keys(d) == {d[i].k : i \in 1..Len(d)}
KeySeq(d) == [i \in 1..Len(d) |-> d[i].k]
HasKey(d, key) == \E i \in 1..Len(d) : d[i].k = key
IndexOf(d, key) == CHOOSE i \in 1..Len(d) : d[i].k = key
Get(d, key) == d[IndexOf(d, key)].v

\* (mutation) assignment as delete-then-insert: a re-set key moves to the end
DictSet_reinsert(d, key, value) ==
    LET Others(e) == e.k # key
    IN Append(SelectSeq(d, Others), [v |-> value, k |-> key])

\* d[key] = value : an existing key keeps its slot, a new key goes last
DictSet(d, key, value) ==
    IF HasKey(d, key)
    THEN [d EXCEPT ![IndexOf(d, key)] = [v |-> value, k |-> key]]
    ELSE Append(d, [v |-> value, k |-> key])

\* d.pop(key, None)
DictPop(d, key) ==
    IF HasKey(d, key)
    THEN LET i == IndexOf(d, key)
         IN SubSeq(d, 1, i - 1) \o SubSeq(d, i + 1, Len(d))
    ELSE d

\* {**a, **b} and a.update(b): the entries of b written into a in b's order
RECURSIVE DictUpdate(_, _)
DictUpdate(a, b) ==
    IF Len(b) = 0 THEN a
    ELSE DictUpdate(DictSet(a, b[1].k, b[1].v), Tail(b))

(***************************************************************************)
(* os.path (posix)                                                         *)
(***************************************************************************)
\* the process's working directory, read by os.path.abspath
Cwd == <<"/", "w">>

\* s.split(sep): the pieces of s between occurrences of the character sep
RECURSIVE SplitChar(_, _)
SplitChar(s, sep) ==
    IF \E i \in 1..Len(s) : s[i] = sep
    THEN LET i == CHOOSE j \in 1..Len(s) :
                      s[j] = sep /\ \A m \in 1..(j - 1) : s[m] # sep
         IN <<SubSeq(s, 1, i - 1)>> \o SplitChar(SubSeq(s, i + 1, Len(s)), sep)
    ELSE <<s>>

\* the loop of posixpath.normpath over the components
RECURSIVE NormComps(_, _, _)
NormComps(comps, new_comps, initial_slashes) ==
    IF Len(comps) = 0 THEN new_comps
    ELSE LET comp == comps[1]
             rest == Tail(comps)
         IN IF comp = <<>> \/ comp = <<".">>
            THEN NormComps(rest, new_comps, initial_slashes)
            ELSE IF comp # <<".", ".">>
                    \/ (initial_slashes = 0 /\ Len(new_comps) = 0)
                    \/ (Len(new_comps) > 0
                        /\ new_comps[Len(new_comps)] = <<".", ".">>)
            THEN NormComps(rest, Append(new_comps, comp), initial_slashes)
            ELSE IF Len(new_comps) > 0
            THEN NormComps(rest, SubSeq(new_comps, 1, Len(new_comps) - 1),
                           initial_slashes)
            ELSE NormComps(rest, new_comps, initial_slashes)

normpath(path) ==
    IF path = <<>> THEN <<".">>
    ELSE LET initial_slashes ==
                 IF ~StartsWith(path, <<"/">>) THEN 0
                 ELSE IF StartsWith(path, <<"/", "/">>)
                         /\ ~StartsWith(path, <<"/", "/", "/">>)
                 THEN 2 ELSE 1
             comps == NormComps(SplitChar(path, "/"), <<>>, initial_slashes)
             joined == Join(<<"/">>, comps)
             out == IF initial_slashes = 0 THEN joined
                    ELSE [i \in 1..initial_slashes |-> "/"] \o joined
         IN IF out = <<>> THEN <<".">> ELSE out

abspath(path) ==
    IF StartsWith(path, <<"/">>) THEN normpath(path)
    ELSE normpath(IF Cwd[Len(Cwd)] = "/" THEN Cwd \o path
                  ELSE Cwd \o <<"/">> \o path)

\* os.path.basename: what follows the last slash
basename(p) ==
    LET parts == SplitChar(p, "/") IN parts[Len(parts)]

\* s.split(sub)[0]: s up to the first occurrence of sub, all of s if none
SplitFirst(s, sub) ==
    LET hits == {i \in 1..(Len(s) - Len(sub) + 1) :
                     SubSeq(s, i, i + Len(sub) - 1) = sub}
    IN IF hits = {} THEN s
       ELSE SubSeq(s, 1, (CHOOSE i \in hits : \A j \in hits : i <= j) - 1)

\* run_name when the caller gave none
derive_run_name(basepath_arg) ==
    SplitFirst(basename(normpath(basepath_arg)), <<"_", "g", "0">>)

(***************************************************************************)
(* The option store and the serializer                                     *)
(***************************************************************************)
\* (mutation) _update_options without its None filter
update_options_writes_none(opts, params) == DictUpdate(opts, params)

\* CatGt_wrapper._update_options: write every non-None entry of params
RECURSIVE update_options(_, _)
update_options(opts, params) ==
    IF Len(params) = 0 THEN opts
    ELSE update_options(
             IF params[1].v # None
             THEN DictSet(opts, params[1].k, params[1].v)
             ELSE opts,
             Tail(params))

\* (mutation) the flag name with underscores turned into dashes
option_name_dashed(key) == ReplaceChar(key, "_", "-")

\* the flag name of a key
option_name(key) == key

\* (mutation) the loop body without the boolean rule: every value is
\* rendered as name=value
format_entry_no_bool_rule(key, value) ==
    IF value.t \in {"list", "tuple"}
    THEN <<<<"-">> \o option_name(key) \o <<"=">>
           \o Join(<<",">>, [i \in 1..Len(value.v) |-> ToStr(value.v[i])])>>
    ELSE <<<<"-">> \o option_name(key) \o <<"=">> \o ToStr(value)>>

\* one pass of the loop of _format_options: the strings one entry appends
format_entry(key, value) ==
    IF value.t = "bool"
    THEN IF value.v THEN <<<<"-">> \o option_name(key)>> ELSE <<>>
    ELSE IF value.t \in {"list", "tuple"}
    THEN <<<<"-">> \o option_name(key) \o <<"=">>
           \o Join(<<",">>, [i \in 1..Len(value.v) |-> ToStr(value.v[i])])>>
    ELSE <<<<"-">> \o option_name(key) \o <<"=">> \o ToStr(value)>>

RECURSIVE format_options(_)
format_options(opts) ==
    IF Len(opts) = 0 THEN <<>>
    ELSE format_entry(opts[1].k, opts[1].v) \o format_options(Tail(opts))

\* (mutation) gate and trigger tested for truth, not against None
command_args_truthy(o) ==
    <<o.catgt_path>>
    \o <<<<"-", "d", "i", "r", "=">> \o o.basepath>>
    \o <<<<"-", "r", "u", "n", "=">> \o o.run_name>>
    \o (IF Truthy(o.gate) THEN <<<<"-", "g", "=">> \o ToStr(o.gate)>> ELSE <<>>)
    \o (IF Truthy(o.trigger) THEN <<<<"-", "t", "=">> \o ToStr(o.trigger)>>
        ELSE <<>>)
    \o format_options(o.options)

\* CatGt_wrapper.get_command_args on an instance with these attributes
command_args(o) ==
    <<o.catgt_path>>
    \o <<<<"-", "d", "i", "r", "=">> \o o.basepath>>
    \o <<<<"-", "r", "u", "n", "=">> \o o.run_name>>
    \o (IF o.gate # None THEN <<<<"-", "g", "=">> \o ToStr(o.gate)>> ELSE <<>>)
    \o (IF o.trigger # None THEN <<<<"-", "t", "=">> \o ToStr(o.trigger)>>
        ELSE <<>>)
    \o format_options(o.options)

(***************************************************************************)
(* Parameter and option names                                              *)
(***************************************************************************)
k_prb == <<"p", "r", "b">>
k_prb_fld == <<"p", "r", "b", "_", "f", "l", "d">>
k_t == <<"t">>
k_t_cat == <<"t", "_", "c", "a", "t">>
k_ap == <<"a", "p">>
k_lf == <<"l", "f">>
k_ni == <<"n", "i">>
k_ob == <<"o", "b">>
k_loccar == <<"l", "o", "c", "c", "a", "r">>
k_gblcar == <<"g", "b", "l", "c", "a", "r">>
k_gfix == <<"g", "f", "i", "x">>
k_tshift == <<"t", "s", "h", "i", "f", "t">>
k_apfilter == <<"a", "p", "f", "i", "l", "t", "e", "r">>
k_lffilter == <<"l", "f", "f", "i", "l", "t", "e", "r">>
k_loccar_um == <<"l", "o", "c", "c", "a", "r", "_", "u", "m">>
k_gbldmx == <<"g", "b", "l", "d", "m", "x">>
k_xa == <<"x", "a">>
k_xd == <<"x", "d">>
k_xia == <<"x", "i", "a">>
k_xid == <<"x", "i", "d">>
k_dest == <<"d", "e", "s", "t">>
k_out_prb_fld == <<"o", "u", "t", "_", "p", "r", "b", "_", "f", "l", "d">>
k_supercat == <<"s", "u", "p", "e", "r", "c", "a", "t">>
k_supercat_trim_edges == <<"s", "u", "p", "e", "r", "c", "a", "t", "_", "t", "r", "i", "m", "_", "e", "d", "g", "e", "s">>
k_supercat_skip_ni_ob_bin == <<"s", "u", "p", "e", "r", "c", "a", "t", "_", "s", "k", "i", "p", "_", "n", "i", "_", "o", "b", "_", "b", "i", "n">>
k_prb_list == <<"p", "r", "b", "_", "l", "i", "s", "t">>
k_catgt_path == <<"c", "a", "t", "g", "t", "_", "p", "a", "t", "h">>
k_basepath == <<"b", "a", "s", "e", "p", "a", "t", "h">>
k_run_name == <<"r", "u", "n", "_", "n", "a", "m", "e">>
k_gate == <<"g", "a", "t", "e">>
k_trigger == <<"t", "r", "i", "g", "g", "e", "r">>
k_runs == <<"r", "u", "n", "s">>
k_trim_edges == <<"t", "r", "i", "m", "_", "e", "d", "g", "e", "s">>
k_skip_ni_ob_bin == <<"s", "k", "i", "p", "_", "n", "i", "_", "o", "b", "_", "b", "i", "n">>
k_key == <<"k", "e", "y">>
k_value == <<"v", "a", "l", "u", "e">>
k_opts == <<"o", "p", "t", "s">>

(***************************************************************************)
(* Calls: the arguments a caller supplies are a dict from parameter name   *)
(* to value; a parameter that is not supplied takes its default, and the   *)
(* supplied names that are no named parameter are the **kwargs.            *)
(***************************************************************************)
Entry(key, value) == [v |-> value, k |-> key]

Bound(args, name, default) ==
    IF HasKey(args, name) THEN Get(args, name) ELSE default

kwargs_of(args, named) ==
    LET IsExtra(e) == \A i \in 1..Len(named) : named[i] # e.k
    IN SelectSeq(args, IsExtra)

\* { 'a': a, 'b': b, ..., **kwargs } of a stage setter
stage_params(args, named) ==
    DictUpdate([i \in 1..Len(named) |-> Entry(named[i], Bound(args, named[i], None))],
               kwargs_of(args, named))

set_input_named == <<k_prb, k_prb_fld, k_t, k_t_cat>>
set_streams_named == <<k_ap, k_lf, k_ni, k_ob>>
set_filters_named == <<k_loccar, k_gblcar, k_gfix, k_tshift, k_apfilter, k_lffilter>>
set_car_options_named == <<k_gblcar, k_loccar, k_loccar_um, k_gbldmx>>
set_extraction_named == <<k_xa, k_xd, k_xia, k_xid>>
set_output_named == <<k_dest, k_out_prb_fld, k_gbldmx>>

(***************************************************************************)
(* State                                                                   *)
(***************************************************************************)
VARIABLES
    live,   \* an instance exists (a constructor call has returned)
    self,   \* the instance's attributes
    last,   \* the latest call: its name, arguments, outcome, and the
            \* attributes as they were when it was made
    calls   \* mutator calls made on the instance

vars == <<live, self, last, calls>>

\* calls of mutators (setters, remove, clear) made on one instance
MaxCalls == 2

NoInstance ==
    [catgt_path |-> <<>>, basepath |-> <<>>, run_name |-> <<>>,
     gate |-> None, trigger |-> None, options |-> <<>>, prb_fld |-> None]

NoExc == [exc |-> "", msg |-> "", index |-> -1]
Raise(exc, msg) == [exc |-> exc, msg |-> msg, index |-> -1]
RaiseAt(exc, msg, i) == [exc |-> exc, msg |-> msg, index |-> i]
RetSelf == [t |-> "self", v |-> <<>>]

Call(op, args, raised, ret) ==
    [args |-> args, op |-> op, raised |-> raised, ret |-> ret, pre |-> self]

Init ==
    /\ live = FALSE
    /\ self = NoInstance
    /\ last = [args |-> <<>>, op |-> "", raised |-> NoExc, ret |-> None,
               pre |-> NoInstance]
    /\ calls = 0

(***************************************************************************)
(* Values the callers pass                                                 *)
(***************************************************************************)
s_exe == <<"C", "a", "t", "G", "t">>
s_base == <<"d", "/", "x", "_", "g", "0", "/">>
s_g0 == <<"g", "0">>
s_o == <<"/", "o">>
s_p == <<"/", "p">>
s_range == <<"0", ",", "1">>
l_012 == PyList(<<PyInt(0), PyInt(1), PyInt(2)>>)

(***************************************************************************)
(* CatGt_wrapper.__init__                                                  *)
(***************************************************************************)
init_named == <<k_catgt_path, k_basepath, k_run_name, k_gate, k_trigger, k_prb_fld>>

InitArgs ==
    {<<Entry(k_catgt_path, PyStr(c)), Entry(k_basepath, PyStr(b))>>
       \o g \o t \o rkw :
       c \in {<<>>, s_exe}, b \in {<<>>, s_base},
       g \in {<<>>, <<Entry(k_gate, None)>>},
       t \in {<<>>, <<Entry(k_trigger, None)>>},
       rkw \in {<<>>,
                <<Entry(k_run_name, PyStr(s_g0)), Entry(k_ap, PyTrue),
                  Entry(k_xa, None), Entry(k_dest, PyStr(s_o))>>}}

\* the instance __init__ builds, once its checks have passed
init_instance(args) ==
    LET run_arg == Bound(args, k_run_name, None)
        base_arg == Get(args, k_basepath).v
    IN [catgt_path |-> Get(args, k_catgt_path).v,
        basepath |-> abspath(base_arg),
        run_name |-> IF run_arg = None THEN derive_run_name(base_arg)
                     ELSE run_arg.v,
        gate |-> Bound(args, k_gate, PyInt(0)),
        trigger |-> Bound(args, k_trigger, PyInt(0)),
        options |-> update_options(<<>>, kwargs_of(args, init_named)),
        prb_fld |-> Bound(args, k_prb_fld, None)]

\* (mutation) __init__ checking the executable path only
init_raises_exe_only(args) ==
    IF ~Truthy(Get(args, k_catgt_path))
    THEN Raise("ValueError", "catgt_path cannot be empty")
    ELSE NoExc

init_raises(args) ==
    IF ~Truthy(Get(args, k_catgt_path))
    THEN Raise("ValueError", "catgt_path cannot be empty")
    ELSE IF ~Truthy(Get(args, k_basepath))
    THEN Raise("ValueError", "basepath cannot be empty")
    ELSE NoExc

\* one call of the constructor
init_call(args) ==
    /\ ~live
    /\ LET raised == init_raises(args)
       IN /\ last' = Call("__init__", args, raised, None)
          /\ IF raised = NoExc
             THEN live' = TRUE /\ self' = init_instance(args)
             ELSE live' = FALSE /\ self' = self
    /\ calls' = 0

init == \E args \in InitArgs : init_call(args)

(***************************************************************************)
(* Method calls on the instance                                            *)
(***************************************************************************)
\* a call that returns: the instance after it, and what it returned
Returns(op, args, ret, after) ==
    /\ live
    /\ calls < MaxCalls
    /\ self' = after
    /\ last' = Call(op, args, NoExc, ret)
    /\ calls' = calls + 1
    /\ live' = live

\* a call that raises, leaving the instance as `after`
Raises(op, args, raised, after) ==
    /\ live
    /\ calls < MaxCalls
    /\ self' = after
    /\ last' = Call(op, args, raised, None)
    /\ calls' = calls + 1
    /\ live' = live

WithOptions(opts) == [self EXCEPT !.options = opts]

\* ---- stage setters ------------------------------------------------------
SetInputArgs ==
    {<<Entry(k_prb, PyInt(0)), Entry(k_ap, None)>>,
     <<Entry(k_prb_fld, PyTrue), Entry(k_prb, None), Entry(k_prb_list, l_012),
       Entry(k_dest, PyStr(s_p))>>}

set_input ==
    \E args \in SetInputArgs :
        Returns("set_input", args, RetSelf,
                WithOptions(update_options(self.options,
                                           stage_params(args, set_input_named))))

SetStreamsArgs ==
    {<<Entry(k_ap, PyFalse), Entry(k_lf, PyTrue)>>,
     <<Entry(k_ob, PyTrue), Entry(k_ap, None)>>}

\* set_streams and set_car_options take no **kwargs: their callers pass named
\* parameters only.  (The docstring of set_streams is indented like its def;
\* the method is read here with that docstring as the first line of its body.)
set_streams ==
    \E args \in SetStreamsArgs :
        Returns("set_streams", args, RetSelf,
                WithOptions(update_options(self.options,
                                stage_params(args, set_streams_named))))

SetFiltersArgs ==
    {<<Entry(k_ap, PyTrue), Entry(k_loccar, PyInt(2))>>,
     <<Entry(k_gblcar, PyTrue)>>}

\* the dict display of set_filters reads ap, lf and ni, which are neither
\* parameters nor globals: evaluating its first entry raises NameError
set_filters ==
    \E args \in SetFiltersArgs :
        Raises("set_filters", args,
               Raise("NameError", "name 'ap' is not defined"), self)

SetCarOptionsArgs ==
    {<<Entry(k_loccar, PyInt(2))>>,
     <<Entry(k_gblcar, PyTrue), Entry(k_loccar_um, PyInt(40)),
       Entry(k_gbldmx, None)>>}

set_car_options ==
    \E args \in SetCarOptionsArgs :
        Returns("set_car_options", args, RetSelf,
                WithOptions(update_options(self.options,
                                stage_params(args, set_car_options_named))))

SetExtractionArgs ==
    {<<Entry(k_xa, PyStr(s_range))>>,
     <<Entry(k_xd, None), Entry(k_xia, l_012), Entry(k_ap, PyTrue)>>}

set_extraction ==
    \E args \in SetExtractionArgs :
        Returns("set_extraction", args, RetSelf,
                WithOptions(update_options(self.options,
                                stage_params(args, set_extraction_named))))

SetOutputArgs ==
    {<<Entry(k_dest, PyStr(s_p)), Entry(k_out_prb_fld, PyTrue)>>,
     <<Entry(k_gbldmx, PyFalse), Entry(k_dest, None),
       Entry(k_prb_list, PyTuple(<<PyInt(10), PyStr(<<"a">>)>>))>>}

set_output ==
    \E args \in SetOutputArgs :
        Returns("set_output", args, RetSelf,
                WithOptions(update_options(self.options,
                                stage_params(args, set_output_named))))

\* ---- single options -----------------------------------------------------
OptionValues ==
    {None, PyFalse, l_012}

SetOptionArgs ==
    {<<Entry(k_key, PyStr(key)), Entry(k_value, value)>> :
       key \in {k_ap, k_prb_fld}, value \in OptionValues}

set_option ==
    \E args \in SetOptionArgs :
        LET key == Get(args, k_key).v
            value == Get(args, k_value)
        IN Returns("set_option", args, RetSelf,
                   IF value # None
                   THEN WithOptions(DictSet(self.options, key, value))
                   ELSE self)

PyDict(d) == [t |-> "dict", v |-> d]

SetOptionsArgs ==
    {<<Entry(k_opts, o)>> :
       o \in {l_012,
              PyDict(<<Entry(k_prb_fld, PyStr(s_p)), Entry(k_ap, None)>>),
              PyDict(<<Entry(k_dest, None), Entry(k_xa, PyList(<<>>)),
                       Entry(k_ap, PyFalse)>>)}}

set_options ==
    \E args \in SetOptionsArgs :
        LET o == Get(args, k_opts)
        IN IF o.t # "dict"
           THEN Raises("set_options", args,
                       Raise("TypeError", "options must be a dict"), self)
           ELSE Returns("set_options", args, RetSelf,
                        WithOptions(update_options(self.options, o.v)))

RemoveOptionArgs ==
    {<<Entry(k_key, PyStr(key))>> : key \in {k_ap, k_xa}}

remove_option ==
    \E args \in RemoveOptionArgs :
        Returns("remove_option", args, RetSelf,
                WithOptions(DictPop(self.options, Get(args, k_key).v)))

\* (mutation) a clear that also resets the gate and trigger indices
clear_options_all ==
    Returns("clear_options", <<>>, RetSelf,
            [self EXCEPT !.options = <<>>, !.gate = None, !.trigger = None])

clear_options ==
    Returns("clear_options", <<>>, RetSelf, WithOptions(<<>>))

\* ---- supercat -----------------------------------------------------------
k_dir == <<"d", "i", "r">>
k_run_ga == <<"r", "u", "n", "_", "g", "a">>

Run(d, r) == PyDict(<<Entry(k_dir, PyStr(d)), Entry(k_run_ga, PyStr(r))>>)
run1 == Run(<<"/", "d", "1">>, <<"r", "1", "_", "g", "0">>)
run2 == Run(<<"/", "d", "2">>, <<"r", "2", "_", "g", "0">>)

SetSupercatArgs ==
    {<<Entry(k_runs, runs)>> \o trim \o dest \o kw :
       runs \in {PyList(<<>>), PyList(<<run1, run2>>),
                 PyList(<<run1, PyInt(3)>>)},
       trim \in {<<>>, <<Entry(k_trim_edges, PyTrue)>>},
       dest \in {<<>>, <<Entry(k_dest, PyStr(s_p))>>},
       kw \in {<<Entry(k_ap, None)>>}}

set_supercat_named == <<k_runs, k_trim_edges, k_skip_ni_ob_bin, k_dest>>

\* the first run entry the validation loop rejects, 0 if it rejects none
\* (entries are numbered from 1 here, from 0 in the source)
bad_run(runs) ==
    LET Bad(i) == \/ runs[i].t # "dict"
                  \/ ~HasKey(runs[i].v, k_dir)
                  \/ ~HasKey(runs[i].v, k_run_ga)
        bad == {i \in 1..Len(runs) : Bad(i)}
    IN IF bad = {} THEN 0 ELSE CHOOSE i \in bad : \A j \in bad : i <= j

\* (mutation) set_supercat without its test of dest
set_supercat_raises_no_dest(args) ==
    LET runs == Get(args, k_runs)
    IN IF ~Truthy(runs) \/ runs.t # "list"
       THEN Raise("ValueError", "runs must be a non-empty list of dictionaries")
       ELSE IF bad_run(runs.v) # 0
       THEN RaiseAt("ValueError", "Run entry is malformed", bad_run(runs.v) - 1)
       ELSE NoExc

set_supercat_raises(args) ==
    LET runs == Get(args, k_runs)
        dest == Bound(args, k_dest, None)
    IN IF ~Truthy(runs) \/ runs.t # "list"
       THEN Raise("ValueError", "runs must be a non-empty list of dictionaries")
       ELSE IF ~Truthy(dest)
       THEN Raise("ValueError", "dest parameter is required for supercat operations")
       ELSE IF bad_run(runs.v) # 0
       THEN IF runs.v[bad_run(runs.v)].t # "dict"
            THEN RaiseAt("ValueError", "Run entry must be a dictionary",
                         bad_run(runs.v) - 1)
            ELSE RaiseAt("ValueError", "Run entry must contain 'dir' and 'run_ga' keys",
                         bad_run(runs.v) - 1)
       ELSE NoExc

\* ''.join of "{dir,run_ga}" over the runs
RECURSIVE supercat_str(_)
supercat_str(runs) ==
    IF Len(runs) = 0 THEN <<>>
    ELSE <<"{">> \o ToStr(Get(runs[1].v, k_dir)) \o <<",">>
         \o ToStr(Get(runs[1].v, k_run_ga)) \o <<"}">>
         \o supercat_str(Tail(runs))

set_supercat_params(args) ==
    LET p0 == <<Entry(k_supercat, PyStr(supercat_str(Get(args, k_runs).v))),
                Entry(k_dest, Bound(args, k_dest, None))>>
        p1 == IF Truthy(Bound(args, k_trim_edges, PyFalse))
              THEN DictSet(p0, k_supercat_trim_edges, PyTrue) ELSE p0
        p2 == IF Truthy(Bound(args, k_skip_ni_ob_bin, PyFalse))
              THEN DictSet(p1, k_supercat_skip_ni_ob_bin, PyTrue) ELSE p1
    IN DictUpdate(p2, kwargs_of(args, set_supercat_named))

\* (mutation) set_supercat storing dest before it has checked the runs
set_supercat_call_dest_first(args) ==
    IF set_supercat_raises(args) # NoExc
    THEN Raises("set_supercat", args, set_supercat_raises(args),
                WithOptions(update_options(self.options,
                                           <<Entry(k_dest, Bound(args, k_dest, None))>>)))
    ELSE Returns("set_supercat", args, RetSelf,
                 WithOptions(update_options(self.options,
                                            set_supercat_params(args))))

\* one call of set_supercat
set_supercat_call(args) ==
    IF set_supercat_raises(args) # NoExc
    THEN Raises("set_supercat", args, set_supercat_raises(args), self)
    ELSE Returns("set_supercat", args, RetSelf,
                 WithOptions(update_options(self.options,
                                            set_supercat_params(args))))

set_supercat == \E args \in SetSupercatArgs : set_supercat_call(args)

\* ---- serialization ------------------------------------------------------
\* a call of a method that assigns nothing
Reads(op, ret) ==
    /\ live
    /\ last' = Call(op, <<>>, NoExc, ret)
    /\ UNCHANGED <<live, self, calls>>

\* (mutation) a serialization that consumes the options it formats
get_command_args_consuming ==
    /\ live
    /\ last' = Call("get_command_args", <<>>, NoExc, PyList(command_args(self)))
    /\ self' = WithOptions(<<>>)
    /\ UNCHANGED <<live, calls>>

get_command_args ==
    Reads("get_command_args", PyList(command_args(self)))

\* build_command returns self.get_command_args()
build_command ==
    Reads("build_command", PyList(command_args(self)))

\* dry_run joins build_command() with spaces, prints and returns the string
dry_run ==
    Reads("dry_run", PyStr(Join(<<" ">>, command_args(self))))

\* __str__
str ==
    Reads("__str__", PyStr(Join(<<" ">>, command_args(self))))

Next ==
    \/ init
    \/ set_input
    \/ set_streams
    \/ set_filters
    \/ set_car_options
    \/ set_extraction
    \/ set_output
    \/ set_option
    \/ set_options
    \/ remove_option
    \/ clear_options
    \/ set_supercat
    \/ get_command_args
    \/ build_command
    \/ dry_run
    \/ str

Spec == Init /\ [][Next]_vars

(***************************************************************************)
(* Properties                                                              *)
(***************************************************************************)
ListSerializers == {"get_command_args", "build_command"}
Serializers == ListSerializers \cup {"dry_run", "__str__"}
StageSetters ==
    {"set_input", "set_streams", "set_filters", "set_car_options",
     "set_extraction", "set_output", "set_options"}

\* the entries of a store that are not boolean false, in store order
Emitting(opts) ==
    LET NotFalse(e) == e.v # PyFalse IN SelectSeq(opts, NotFalse)

\* number of leading elements: executable, -dir, -run, and -g / -t if present
NBase(o) ==
    3 + (IF o.gate # None THEN 1 ELSE 0) + (IF o.trigger # None THEN 1 ELSE 0)

\* the elements of a returned argument list after the leading ones
OptionFlags(out, o) == SubSeq(out, NBase(o) + 1, Len(out))

SameConfig(a, b) ==
    /\ a.catgt_path = b.catgt_path
    /\ a.basepath = b.basepath
    /\ a.run_name = b.run_name
    /\ a.gate = b.gate
    /\ a.trigger = b.trigger

\* C1: get_command_args / build_command return exactly: the executable path,
\* -dir=<absolute base directory>, -run=<run name>, -g=<gate> iff the gate is
\* not None, -t=<trigger> iff the trigger is not None, then the serialized
\* options in store order, and nothing else; 0 counts as present.
C1_CommandArgs ==
    (live /\ last.op \in ListSerializers) =>
        LET out == last.ret.v
            hasG == self.gate # None
            hasT == self.trigger # None
            n == NBase(self)
        IN /\ last.ret.t = "list"
           /\ Len(out) = n + Len(Emitting(self.options))
           /\ out[1] = self.catgt_path
           /\ out[2] = <<"-", "d", "i", "r", "=">> \o self.basepath
           /\ self.basepath[1] = "/"
           /\ out[3] = <<"-", "r", "u", "n", "=">> \o self.run_name
           /\ hasG => out[4] = <<"-", "g", "=">> \o IntStr(self.gate.v)
           /\ hasT => out[IF hasG THEN 5 ELSE 4]
                          = <<"-", "t", "=">> \o IntStr(self.trigger.v)
           /\ OptionFlags(out, self) = format_options(self.options)
           /\ \A i \in 1..Len(out) : out[i] # <<>>

C1_Witness ==
    /\ live
    /\ last.op = "build_command"
    /\ self.gate = PyInt(0)
    /\ self.trigger = None
    /\ Len(self.options) >= 2

\* what a call writes: the mapping handed to the store
Written(c) ==
    IF c.op = "set_options" THEN Get(c.args, k_opts).v ELSE c.args

NonNone(d) == LET Kept(e) == e.v # None IN SelectSeq(d, Kept)

\* equality of two dicts as mappings
SameMapping(a, b) ==
    /\ Keys(a) = Keys(b)
    /\ \A key \in Keys(a) : Get(a, key) = Get(b, key)

\* C2: every stage setter completes without raising, returns the instance,
\* and leaves the store equal to the previous store updated with exactly the
\* non-None entries of its named parameters and extras.
C2_StageSettersPureSugar ==
    (live /\ last.op \in StageSetters
          /\ (last.op = "set_options" => Get(last.args, k_opts).t = "dict")) =>
        /\ last.raised = NoExc
        /\ last.ret = RetSelf
        /\ SameMapping(self.options,
                       DictUpdate(last.pre.options, NonNone(Written(last))))

C4_UnderscoreToDash ==
    (live /\ last.op \in ListSerializers) =>
        LET flags == OptionFlags(last.ret.v, self)
            ents == Emitting(self.options)
        IN /\ Len(flags) = Len(ents)
           /\ \A j \in 1..Len(ents) :
                LET name == <<"-">> \o ReplaceChar(ents[j].k, "_", "-")
                IN \/ flags[j] = name
                   \/ StartsWith(flags[j], name \o <<"=">>)

\* C5: each entry is rendered by its value's shape, the boolean rule first:
\* true gives -name, false gives nothing, a list or tuple gives -name= and
\* its elements joined by single commas in order, anything else gives
\* -name=value; the option strings are as many as the entries not false.
C5_RenderingByShape ==
    (live /\ last.op \in ListSerializers) =>
        LET flags == OptionFlags(last.ret.v, self)
            ents == Emitting(self.options)
        IN /\ Len(flags)
                = Cardinality({i \in 1..Len(self.options) :
                                   self.options[i].v # PyFalse})
           /\ Len(flags) = Len(ents)
           /\ \A j \in 1..Len(ents) :
                LET value == ents[j].v
                    name == <<"-">> \o ents[j].k
                    rest == SubSeq(flags[j], Len(name) + 2, Len(flags[j]))
                IN IF value.t = "bool"
                   THEN flags[j] = name
                   ELSE /\ StartsWith(flags[j], name \o <<"=">>)
                        /\ IF value.t \in {"list", "tuple"}
                           THEN IF Len(value.v) = 0 THEN rest = <<>>
                                ELSE SplitChar(rest, ",")
                                       = [i \in 1..Len(value.v) |->
                                              ToStr(value.v[i])]
                           ELSE rest = ToStr(value)

C5_Witness ==
    /\ live
    /\ last.op \in ListSerializers
    /\ \E i \in 1..Len(self.options) : self.options[i].v = PyFalse
    /\ \E i \in 1..Len(self.options) : self.options[i].v = PyTrue
    /\ \E i \in 1..Len(self.options) :
         self.options[i].v.t \in {"list", "tuple"} /\ Len(self.options[i].v.v) >= 2

\* the named parameters of a stage setter
NamedOf(op) ==
    CASE op = "set_input" -> set_input_named
      [] op = "set_streams" -> set_streams_named
      [] op = "set_filters" -> set_filters_named
      [] op = "set_car_options" -> set_car_options_named
      [] op = "set_extraction" -> set_extraction_named
      [] op = "set_output" -> set_output_named
      [] OTHER -> <<>>

SeqRange(q) == {q[i] : i \in 1..Len(q)}

\* the option keys a call writes with the value None
NoneWritten(c) ==
    IF c.op \in {"set_input", "set_streams", "set_filters", "set_car_options",
                 "set_extraction", "set_output"}
    THEN {key \in SeqRange(NamedOf(c.op)) \cup Keys(c.args) :
              Bound(c.args, key, None) = None}
    ELSE IF c.op = "set_option"
    THEN IF Get(c.args, k_value) = None THEN {Get(c.args, k_key).v} ELSE {}
    ELSE IF c.op = "set_options"
    THEN IF Get(c.args, k_opts).t = "dict"
         THEN {key \in Keys(Get(c.args, k_opts).v) :
                   Get(Get(c.args, k_opts).v, key) = None}
         ELSE {}
    ELSE IF c.op = "set_supercat"
    THEN {key \in Keys(kwargs_of(c.args, set_supercat_named)) :
              Get(c.args, key) = None}
    ELSE IF c.op = "__init__"
    THEN {key \in Keys(kwargs_of(c.args, init_named)) : Get(c.args, key) = None}
    ELSE {}

\* C6: a key written with None by any mutator (or as a constructor or
\* set_supercat keyword option) has the same entry, present with the same
\* value at the same position or absent, after the call as before it.
C6_NoneWritesNothing ==
    \A key \in NoneWritten(last) :
        LET old == last.pre.options
            new == self.options
        IN /\ HasKey(new, key) = HasKey(old, key)
           /\ HasKey(old, key) =>
                /\ Get(new, key) = Get(old, key)
                /\ IndexOf(new, key) = IndexOf(old, key)

C6_Witness ==
    /\ live
    /\ last.op = "set_input"
    /\ HasKey(last.args, k_ap)
    /\ Get(last.args, k_ap) = None
    /\ HasKey(last.pre.options, k_ap)
    /\ HasKey(last.pre.options, k_dest)
    /\ HasKey(self.options, k_prb)

\* the order in which a call hands its keyword options to the store
WriteOrder(c) ==
    IF c.op = "__init__" THEN KeySeq(kwargs_of(c.args, init_named))
    ELSE IF c.op = "set_options" /\ Get(c.args, k_opts).t = "dict"
    THEN KeySeq(Get(c.args, k_opts).v)
    ELSE <<>>

Before(q, a, b) ==
    \E i, j \in 1..Len(q) : i < j /\ q[i] = a /\ q[j] = b

\* C7: the flags come in the order in which the keys now in the store were
\* inserted: a call keeps the relative order of the keys it leaves in the
\* store (a re-set key keeps its slot), puts the keys it inserts after all of
\* those, in the order it was given them, and the j-th flag is the flag of
\* the j-th key that emits one.
C7_InsertionOrder ==
    live =>
        LET old == last.pre.options
            new == self.options
            kept == Keys(old) \cap Keys(new)
            added == Keys(new) \ Keys(old)
            flags == format_options(new)
            ents == Emitting(new)
        IN /\ \A a, b \in kept :
                Before(KeySeq(old), a, b) => Before(KeySeq(new), a, b)
           /\ \A a \in kept : \A b \in added : Before(KeySeq(new), a, b)
           /\ \A a, b \in added :
                Before(WriteOrder(last), a, b) => Before(KeySeq(new), a, b)
           /\ Len(flags) = Len(ents)
           /\ \A j \in 1..Len(ents) :
                StartsWith(flags[j], <<"-">> \o option_name(ents[j].k))

C7_Witness ==
    /\ live
    /\ last.op = "set_option"
    /\ Get(last.args, k_key).v = k_ap
    /\ Len(last.pre.options) >= 2
    /\ last.pre.options[1].k = k_ap
    /\ self.options[1].k = k_ap
    /\ self.options[1].v # last.pre.options[1].v

\* what a serialization returned, as the text dry_run and __str__ give
AsText(ret) == IF ret.t = "list" THEN Join(<<" ">>, ret.v) ELSE ret.v

\* C8: build_command, get_command_args, dry_run and __str__ leave the option
\* store and the base configuration unchanged, and a serialization that
\* directly follows another returns the same sequence.
C8_SerializationPure ==
    [][(last' # last /\ last'.op \in Serializers) =>
          /\ self' = self
          /\ live' = live
          /\ last.op \in Serializers =>
               /\ AsText(last'.ret) = AsText(last.ret)
               /\ (last'.ret.t = last.ret.t => last'.ret = last.ret)]_vars

C8_Witness ==
    /\ live
    /\ last.op = "dry_run"
    /\ Len(self.options) >= 2
    /\ \E i \in 1..Len(self.options) : self.options[i].v = PyFalse
    /\ self = last.pre

\* C9: clear_options empties the store and keeps the base configuration: a
\* serialization after it holds only the executable path, -dir=, -run= and
\* the -g= / -t= flags that are present, the same elements as before it.
C9_ClearKeepsBase ==
    /\ (live /\ last.op = "clear_options") =>
          LET out == command_args(self)
              before == command_args(last.pre)
          IN /\ self.options = <<>>
             /\ SameConfig(self, last.pre)
             /\ Len(out) = NBase(last.pre)
             /\ out = SubSeq(before, 1, Len(out))
    /\ (live /\ last.op \in ListSerializers /\ self.options = <<>>) =>
          LET out == last.ret.v
          IN /\ Len(out) = NBase(self)
             /\ out[1] = self.catgt_path
             /\ StartsWith(out[2], <<"-", "d", "i", "r", "=">>)
             /\ StartsWith(out[3], <<"-", "r", "u", "n", "=">>)
             /\ \A i \in 4..Len(out) :
                  \/ StartsWith(out[i], <<"-", "g", "=">>)
                  \/ StartsWith(out[i], <<"-", "t", "=">>)

C9_Witness ==
    /\ live
    /\ last.op = "clear_options"
    /\ HasKey(last.pre.options, k_supercat)
    /\ HasKey(last.pre.options, k_ap)
    /\ self.gate # None
    /\ self.trigger = None

\* C10: constructing with an empty executable path or an empty base
\* directory fails with ValueError: no instance is produced and no
\* constructor keyword option is written.
C10_EmptyPathsRejected ==
    (last.op = "__init__"
       /\ (Get(last.args, k_catgt_path).v = <<>>
           \/ Get(last.args, k_basepath).v = <<>>)) =>
        /\ last.raised.exc = "ValueError"
        /\ ~live
        /\ self = NoInstance
        /\ self.options = <<>>

C10_Witness ==
    /\ last.op = "__init__"
    /\ Get(last.args, k_catgt_path).v # <<>>
    /\ Get(last.args, k_basepath).v = <<>>
    /\ HasKey(last.args, k_ap)
    /\ last.raised.exc = "ValueError"
    /\ ~live

(***************************************************************************)
(* The constructor over varied base directories, gates, triggers and       *)
(* keyword options                                                         *)
(***************************************************************************)
s_dir == <<"/", "d", "/">>
s_r == <<"r">>
s_mid == <<"a", "_", "g", "0", "b">>
s_sfx_g0 == <<"_", "g", "0">>
s_sfx_g1 == <<"_", "g", "1">>
s_sfx_g12 == <<"_", "g", "1", "2">>

BasePaths ==
    {d \o n \o g \o t :
       d \in {<<>>, s_dir}, n \in {s_r, s_mid},
       g \in {<<>>, s_sfx_g0, s_sfx_g1, s_sfx_g12},
       t \in {<<>>, <<"/">>}}

CtorArgs ==
    {<<Entry(k_catgt_path, PyStr(s_exe)), Entry(k_basepath, PyStr(b))>>
       \o g \o t \o kw :
       b \in BasePaths,
       g \in {<<>>, <<Entry(k_gate, PyInt(0))>>},
       t \in {<<>>, <<Entry(k_trigger, PyInt(0))>>},
       kw \in {<<>>,
               <<Entry(k_run_name, PyStr(s_g0))>>,
               <<Entry(k_ap, PyTrue), Entry(k_dest, PyStr(s_o)),
                 Entry(k_prb, PyInt(0)), Entry(k_prb_fld, PyInt(1))>>}}

init_any == \E args \in CtorArgs : init_call(args)

NextCtor ==
    \/ init_any
    \/ get_command_args
    \/ build_command
    \/ dry_run
    \/ str

SpecCtor == Init /\ [][NextCtor]_vars

(***************************************************************************)
(* C11                                                                     *)
(***************************************************************************)
IsDigit(c) == c \in {"0", "1", "2", "3", "4", "5", "6", "7", "8", "9"}

\* how many digits s ends with
TrailingDigits(s) ==
    LET ms == {m \in 0..Len(s) : \A i \in (Len(s) - m + 1)..Len(s) : IsDigit(s[i])}
    IN CHOOSE m \in ms : \A n \in ms : n <= m

\* s without a closing _g<digits>, s itself when it has none
StripGateSuffix(s) ==
    LET m == TrailingDigits(s)
    IN IF /\ m >= 1
          /\ Len(s) >= m + 2
          /\ SubSeq(s, Len(s) - m - 1, Len(s) - m) = <<"_", "g">>
       THEN SubSeq(s, 1, Len(s) - m - 2)
       ELSE s

\* C11: a configuration constructed without a run name has, as its run name,
\* the last segment of its base directory without a closing _g<digits>
\* (r_g0, r_g1, r_g12 all give r), and that segment unchanged when it closes
\* with no such suffix (a_g0b stays a_g0b).
C11_RunNameDerivation ==
    (live /\ last.op = "__init__" /\ ~HasKey(last.args, k_run_name))
    => self.run_name =
         StripGateSuffix(basename(normpath(Get(last.args, k_basepath).v)))

(***************************************************************************)
(* set_supercat over varied run lists, refinements, destinations and       *)
(* keyword options, on one constructed instance                            *)
(***************************************************************************)
s_d1 == <<"/", "d", "1">>
s_d2 == <<"/", "d", "2">>
s_r1_g0 == <<"r", "1", "_", "g", "0">>
s_r2_g0 == <<"r", "2", "_", "g", "0">>
s_x == <<"x">>

\* a descriptor that lacks its 'run_ga' key
run_no_ga == PyDict(<<Entry(k_dir, PyStr(s_d2))>>)

SupercatRuns ==
    {PyList(<<>>),
     PyList(<<run1, run2>>),
     PyList(<<run2>>),
     PyList(<<run1, Run(<<>>, s_r2_g0)>>),
     PyList(<<Run(s_d1, <<>>)>>),
     PyList(<<run1, run_no_ga, PyInt(3)>>)}

SupercatArgs ==
    {<<Entry(k_runs, runs)>> \o trim \o skip \o dest \o kw :
       runs \in SupercatRuns,
       trim \in {<<>>, <<Entry(k_trim_edges, PyTrue)>>,
                 <<Entry(k_trim_edges, PyFalse)>>},
       skip \in {<<>>, <<Entry(k_skip_ni_ob_bin, PyTrue)>>},
       dest \in {<<>>, <<Entry(k_dest, PyStr(<<>>))>>,
                 <<Entry(k_dest, PyStr(s_p))>>},
       kw \in {<<>>, <<Entry(k_supercat, PyStr(s_x))>>}}

\* CatGt_wrapper("CatGt", "d/x_g0/", dest="/o")
SupercatCtorArgs ==
    <<Entry(k_catgt_path, PyStr(s_exe)), Entry(k_basepath, PyStr(s_base)),
      Entry(k_dest, PyStr(s_o))>>

InitSupercat ==
    /\ live = TRUE
    /\ self = init_instance(SupercatCtorArgs)
    /\ last = [args |-> SupercatCtorArgs, op |-> "__init__", raised |-> NoExc,
               ret |-> None, pre |-> NoInstance]
    /\ calls = 0

set_supercat_any == \E args \in SupercatArgs : set_supercat_call(args)

NextSupercat ==
    \/ set_supercat_any
    \/ get_command_args
    \/ build_command

SpecSupercat == InitSupercat /\ [][NextSupercat]_vars

(***************************************************************************)
(* C12                                                                     *)
(***************************************************************************)
\* {dir,run_ga} of one descriptor
Braced(run) ==
    <<"{">> \o Get(run.v, k_dir).v \o <<",">> \o Get(run.v, k_run_ga).v \o <<"}">>

\* the elements of the first n descriptors, one after the other
RECURSIVE EncodeRuns(_, _)
EncodeRuns(runs, n) ==
    IF n = 0 THEN <<>> ELSE EncodeRuns(runs, n - 1) \o Braced(runs[n])

\* C12: after a set_supercat call that returned, whatever refinements and
\* keyword options it was given, the store holds under `supercat` the
\* elements {dir,run_ga} of the runs, in order and with nothing between
\* them, and the command has the flag -supercat=<that string>.
C12_SupercatValue ==
    (last.op = "set_supercat" /\ last.raised = NoExc)
    => LET runs == Get(last.args, k_runs).v
           enc == EncodeRuns(runs, Len(runs))
       IN /\ HasKey(self.options, k_supercat)
          /\ Get(self.options, k_supercat) = PyStr(enc)
          /\ \E i \in 1..Len(command_args(self)) :
               command_args(self)[i]
                 = <<"-", "s", "u", "p", "e", "r", "c", "a", "t", "=">> \o enc
          /\ (runs = <<run1, run2>>
              => enc = <<"{", "/", "d", "1", ",", "r", "1", "_", "g", "0", "}",
                         "{", "/", "d", "2", ",", "r", "2", "_", "g", "0", "}">>)

(***************************************************************************)
(* C13                                                                     *)
(***************************************************************************)
\* a descriptor whose directory or run-with-gate name is missing or empty
Offending(run) ==
    \/ run.t # "dict"
    \/ ~HasKey(run.v, k_dir)
    \/ ~HasKey(run.v, k_run_ga)
    \/ Get(run.v, k_dir).v = <<>>
    \/ Get(run.v, k_run_ga).v = <<>>

\* C13: set_supercat given an empty run list fails with ValueError, and,
\* given a destination and a run list with a descriptor whose directory or
\* run-with-gate name is missing or empty, fails with a ValueError that
\* names the lowest index of such a descriptor.
C13_RunListValidated ==
    last.op = "set_supercat"
    => LET runs == Get(last.args, k_runs).v
           off == {i \in 1..Len(runs) : Offending(runs[i])}
       IN /\ runs = <<>> => last.raised.exc = "ValueError"
          /\ (Truthy(Bound(last.args, k_dest, None)) /\ off # {})
             => /\ last.raised.exc = "ValueError"
                /\ \A i \in off : last.raised.index + 1 <= i
                /\ last.raised.index + 1 \in off

(***************************************************************************)
(* C14                                                                     *)
(***************************************************************************)
\* C14: a set_supercat call given no dest, or an empty one, fails with
\* ValueError; after a call that returned, the store's dest entry is the
\* dest argument of that call.
C14_DestRequired ==
    last.op = "set_supercat"
    => /\ (~HasKey(last.args, k_dest) \/ ~Truthy(Get(last.args, k_dest)))
          => last.raised.exc = "ValueError"
       /\ last.raised = NoExc
          => /\ HasKey(self.options, k_dest)
             /\ Get(self.options, k_dest) = Get(last.args, k_dest)

\* a returned call that replaced the destination the store held
C14_Witness ==
    /\ last.op = "set_supercat"
    /\ last.raised = NoExc
    /\ Get(last.pre.options, k_dest) = PyStr(s_o)
    /\ Get(self.options, k_dest) = PyStr(s_p)

(***************************************************************************)
(* The FYI files and the static methods that read them                     *)
(***************************************************************************)
k_fyi_path == <<"f", "y", "i", "_", "p", "a", "t", "h">>
k_fyi_paths == <<"f", "y", "i", "_", "p", "a", "t", "h", "s">>

\* the literal head of the pattern: supercat_element={
s_supercat_element ==
    <<"s", "u", "p", "e", "r", "c", "a", "t", "_", "e", "l", "e", "m", "e",
      "n", "t", "=", "{">>

\* the files that exist, each with the text f.read() returns
Disk ==
    <<[path |-> <<"f", "1">>,
       text |-> s_supercat_element
                \o <<"/", "a", "/", "b", ",", "r", "u", "n", "_", "g", "0", "}">>],
      [path |-> <<"f", "2">>,
       text |-> <<"x", "\n">> \o s_supercat_element
                \o <<"/", "d", "1", ",", "r", "1", "_", "g", "0", "}", "\n", "y">>],
      [path |-> <<"f", "3">>,
       text |-> s_supercat_element \o <<",", "q", "}", "\n">>
                \o s_supercat_element
                \o <<"/", "d", "2", ",", "r", "2", "_", "g", "0", "}">>],
      [path |-> <<"f", "4">>,
       text |-> s_supercat_element
                \o <<"a", "}", "\n", "b", ",", "c", ",", "d", "}", "e", "}">>],
      [path |-> <<"f", "5">>, text |-> <<"a", "c", "q", "=", "1", "\n">>],
      [path |-> <<"f", "6">>, text |-> s_supercat_element \o <<",", "r", "}">>],
      [path |-> <<"f", "7">>,
       text |-> s_supercat_element \o <<"/", "a", ",", "}">>],
      [path |-> <<"f", "8">>,
       text |-> s_supercat_element \o <<"/", "a", ",", "b">>],
      [path |-> <<"f", "9">>, text |-> <<>>]>>

\* the paths callers pass: those of the files, and two of no file
FyiPaths ==
    {Disk[i].path : i \in 1..Len(Disk)} \cup {<<"m", "1">>, <<"m", "2">>}

\* os.path.exists(fyi_path)
path_exists(path) == \E i \in 1..Len(Disk) : Disk[i].path = path

\* open(fyi_path, 'r').read()
read_text(path) ==
    Disk[CHOOSE i \in 1..Len(Disk) : Disk[i].path = path].text

\* str.find: the first position from `from` on where c holds ch, 0 if none
Find(c, ch, from) ==
    LET hits == {i \in from..Len(c) : c[i] = ch}
    IN IF hits = {} THEN 0 ELSE CHOOSE i \in hits : \A j \in hits : i <= j

NoMatch == [found |-> FALSE, g1 |-> <<>>, g2 |-> <<>>]

\* the pattern supercat_element=\{([^,]+),([^}]+)\} tried at position i:
\* group 1 runs to the first comma, group 2 from there to the first closing
\* brace, and neither may be empty
match_at(c, i) ==
    LET s == i + Len(s_supercat_element)
        j == Find(c, ",", s)
        k == IF j = 0 THEN 0 ELSE Find(c, "}", j + 1)
    IN IF /\ s - 1 <= Len(c)
          /\ SubSeq(c, i, s - 1) = s_supercat_element
          /\ j > s
          /\ k > j + 1
       THEN [found |-> TRUE, g1 |-> SubSeq(c, s, j - 1),
             g2 |-> SubSeq(c, j + 1, k - 1)]
       ELSE NoMatch

\* (mutation) re.match in place of re.search: the pattern tried at the
\* start of the text only
re_match(c) == IF c = <<>> THEN NoMatch ELSE match_at(c, 1)

\* re.search: the match at the leftmost position that has one
re_search(c) ==
    LET hits == {i \in 1..Len(c) : match_at(c, i).found}
    IN IF hits = {} THEN NoMatch
       ELSE match_at(c, CHOOSE i \in hits : \A j \in hits : i <= j)

\* an exception whose message is built from a path
RaiseFor(exc, msg, path) == [path |-> path, exc |-> exc, msg |-> msg, index |-> -1]

\* what parse_fyi_supercat_element(fyi_path) raises and returns
parse_fyi(fyi_path) ==
    IF ~path_exists(fyi_path)
    THEN [raised |-> RaiseFor("FileNotFoundError", "FYI file not found: {fyi_path}",
                              fyi_path),
          ret |-> None]
    ELSE LET match == re_search(read_text(fyi_path))
         IN IF ~match.found
            THEN [raised |-> RaiseFor("ValueError",
                                      "No supercat_element found in {fyi_path}",
                                      fyi_path),
                  ret |-> None]
            ELSE [raised |-> NoExc, ret |-> Run(match.g1, match.g2)]

\* a call of a static method: `parsed` lists the paths it handed to
\* parse_fyi_supercat_element
StaticCall(op, args, out, parsed) ==
    /\ last' = [args |-> args, op |-> op, raised |-> out.raised,
                ret |-> out.ret, pre |-> self, parsed |-> parsed]
    /\ UNCHANGED <<live, self, calls>>

parse_fyi_supercat_element ==
    \E fyi_path \in FyiPaths :
        StaticCall("parse_fyi_supercat_element",
                   <<Entry(k_fyi_path, PyStr(fyi_path))>>,
                   parse_fyi(fyi_path), <<fyi_path>>)

\* paths in one list given to build_supercat_from_fyi_files
MaxPaths == 2

PathLists == UNION {[1..n -> FyiPaths] : n \in 0..MaxPaths}

\* (mutation) the loop going on past a file that fails
RECURSIVE build_runs_skipping(_, _, _)
build_runs_skipping(fyi_paths, runs, parsed) ==
    IF fyi_paths = <<>>
    THEN [raised |-> NoExc, ret |-> PyList(runs), parsed |-> parsed]
    ELSE LET one == parse_fyi(Head(fyi_paths))
         IN build_runs_skipping(Tail(fyi_paths),
                                IF one.raised.exc # "" THEN runs
                                ELSE Append(runs, one.ret),
                                Append(parsed, Head(fyi_paths)))

\* the loop of build_supercat_from_fyi_files over the paths left, `runs`
\* being the list built so far
RECURSIVE build_runs(_, _, _)
build_runs(fyi_paths, runs, parsed) ==
    IF fyi_paths = <<>>
    THEN [raised |-> NoExc, ret |-> PyList(runs), parsed |-> parsed]
    ELSE LET one == parse_fyi(Head(fyi_paths))
         IN IF one.raised.exc # ""
            THEN [raised |-> one.raised, ret |-> None,
                  parsed |-> Append(parsed, Head(fyi_paths))]
            ELSE build_runs(Tail(fyi_paths), Append(runs, one.ret),
                            Append(parsed, Head(fyi_paths)))

build_supercat_from_fyi_files ==
    \E fyi_paths \in PathLists :
        LET out == build_runs(fyi_paths, <<>>, <<>>)
        IN StaticCall("build_supercat_from_fyi_files",
                      <<Entry(k_fyi_paths,
                              PyList([i \in 1..Len(fyi_paths) |-> PyStr(fyi_paths[i])]))>>,
                      out, out.parsed)

NextFyi ==
    \/ parse_fyi_supercat_element
    \/ build_supercat_from_fyi_files

SpecFyi == Init /\ [][NextFyi]_vars

(***************************************************************************)
(* C15                                                                     *)
(***************************************************************************)
\* c holds supercat_element={A,B} from position i on, its comma at j and its
\* closing brace at k, A without comma, B without closing brace, neither empty
PatternAt(c, i, j, k) ==
    LET s == i + Len(s_supercat_element)
    IN /\ s - 1 <= Len(c)
       /\ SubSeq(c, i, s - 1) = s_supercat_element
       /\ s < j /\ c[j] = "," /\ \A m \in s..(j - 1) : c[m] # ","
       /\ j + 1 < k /\ c[k] = "}" /\ \A m \in (j + 1)..(k - 1) : c[m] # "}"

\* c holds the pattern somewhere with A = d and B = r
HoldsPattern(c, d, r) ==
    \E i \in 1..Len(c) :
        /\ i + Len(s_supercat_element) - 1 <= Len(c)
        /\ \E j \in (i + Len(s_supercat_element))..Len(c) :
             \E k \in (j + 1)..Len(c) :
                 /\ PatternAt(c, i, j, k)
                 /\ d = SubSeq(c, i + Len(s_supercat_element), j - 1)
                 /\ r = SubSeq(c, j + 1, k - 1)

\* c holds the pattern somewhere
HasPattern(c) ==
    \E i \in 1..Len(c) :
        /\ i + Len(s_supercat_element) - 1 <= Len(c)
        /\ \E j \in (i + Len(s_supercat_element))..Len(c) :
             \E k \in (j + 1)..Len(c) : PatternAt(c, i, j, k)

\* C15: parse_fyi_supercat_element given the path of a text that holds
\* supercat_element={A,B} anywhere (A without comma, B without closing brace,
\* both present) returns dir = A and run_ga = B as they stand in the text;
\* given a text without it, raises a ValueError built from the path; given a
\* path of no file, raises FileNotFoundError.
C15_ParseFyi ==
    last.op = "parse_fyi_supercat_element"
    => LET p == Get(last.args, k_fyi_path).v
       IN IF \A i \in 1..Len(Disk) : Disk[i].path # p
          THEN last.raised.exc = "FileNotFoundError"
          ELSE LET c == (CHOOSE f \in {Disk[i] : i \in 1..Len(Disk)} :
                             f.path = p).text
               IN /\ HasPattern(c)
                     => /\ last.raised.exc = ""
                        /\ last.ret.t = "dict"
                        /\ Keys(last.ret.v) = {k_dir, k_run_ga}
                        /\ HoldsPattern(c, Get(last.ret.v, k_dir).v,
                                        Get(last.ret.v, k_run_ga).v)
                  /\ ~HasPattern(c)
                     => /\ last.raised.exc = "ValueError"
                        /\ last.raised.path = p
                  /\ c = s_supercat_element
                         \o <<"/", "a", "/", "b", ",", "r", "u", "n", "_", "g", "0", "}">>
                     => last.ret = Run(<<"/", "a", "/", "b">>,
                                       <<"r", "u", "n", "_", "g", "0">>)

\* a decoded text that has a line before the pattern and one after it
C15_Witness ==
    /\ last.op = "parse_fyi_supercat_element"
    /\ Get(last.args, k_fyi_path).v = <<"f", "2">>
    /\ last.ret = Run(s_d1, s_r1_g0)

(***************************************************************************)
(* C16                                                                     *)
(***************************************************************************)
\* C16: build_supercat_from_fyi_files returns, for paths that all decode,
\* the list whose i-th element is the descriptor decoded from the i-th path;
\* when some path fails to decode, it raises the error of the first such
\* path, returns no list, and has decoded no path after that one.
C16_BuildFromFyiFiles ==
    last.op = "build_supercat_from_fyi_files"
    => LET given == Get(last.args, k_fyi_paths).v
           paths == [i \in 1..Len(given) |-> given[i].v]
           failing == {i \in 1..Len(paths) : parse_fyi(paths[i]).raised.exc # ""}
       IN IF failing = {}
          THEN /\ last.raised.exc = ""
               /\ last.ret.t = "list"
               /\ Len(last.ret.v) = Len(paths)
               /\ \A i \in 1..Len(paths) : last.ret.v[i] = parse_fyi(paths[i]).ret
               /\ last.parsed = paths
          ELSE LET first == CHOOSE i \in failing : \A j \in failing : i <= j
               IN /\ last.raised = parse_fyi(paths[first]).raised
                  /\ last.ret = None
                  /\ last.parsed = SubSeq(paths, 1, first)

\* a list of two paths whose first fails to decode, the second left alone
C16_Witness ==
    /\ last.op = "build_supercat_from_fyi_files"
    /\ Len(Get(last.args, k_fyi_paths).v) = 2
    /\ last.raised.exc = "ValueError"
    /\ last.raised.path = Get(last.args, k_fyi_paths).v[1].v
    /\ Get(last.args, k_fyi_paths).v[2].v = <<"f", "1">>
    /\ last.parsed = <<Get(last.args, k_fyi_paths).v[1].v>>

(***************************************************************************)
(* C17                                                                     *)
(***************************************************************************)
Mutators ==
    StageSetters \cup {"set_option", "set_options", "remove_option",
                       "clear_options", "set_supercat"}

\* C17: a mutator call that raises leaves the instance, and so the keys,
\* values and order of its option store, as they were before the call; and
\* no serialization raises, so every error comes from the mutator call that
\* was given the bad arguments.
C17_NoPartialMutation ==
    /\ (last.op \in Mutators /\ last.raised # NoExc)
       => /\ self.options = last.pre.options
          /\ self = last.pre
    /\ last.op \in Serializers => last.raised = NoExc

\* set_supercat rejecting its second run entry on a store that holds options
C17_Witness ==
    /\ last.op = "set_supercat"
    /\ last.raised.exc = "ValueError"
    /\ last.raised.index = 1
    /\ Len(last.pre.options) >= 2
    /\ self.options = last.pre.options

(***************************************************************************)
(* C18                                                                     *)
(***************************************************************************)
\* some element of the command starts with p
HasFlagStarting(p) ==
    \E i \in 1..Len(command_args(self)) : StartsWith(command_args(self)[i], p)

\* C18: an instance constructed without a gate has gate None and no -g=
\* flag in its command, one constructed without a trigger has trigger None
\* and no -t= flag; a gate or trigger of 0 that was given is emitted as
\* -g=0 or -t=0.
C18_GateTriggerAbsent ==
    (live /\ last.op = "__init__")
    => /\ ~HasKey(last.args, k_gate)
          => self.gate = None /\ ~HasFlagStarting(<<"-", "g", "=">>)
       /\ ~HasKey(last.args, k_trigger)
          => self.trigger = None /\ ~HasFlagStarting(<<"-", "t", "=">>)
       /\ HasKey(last.args, k_gate)
          => \E i \in 1..Len(command_args(self)) :
               command_args(self)[i] = <<"-", "g", "=">> \o ToStr(Get(last.args, k_gate))
       /\ HasKey(last.args, k_trigger)
          => \E i \in 1..Len(command_args(self)) :
               command_args(self)[i]
                 = <<"-", "t", "=">> \o ToStr(Get(last.args, k_trigger))

(***************************************************************************)
(* C19                                                                     *)
(***************************************************************************)
\* the constructor's arguments that are not options: the paths, the run
\* name, the gate and the trigger
BaseNames == {k_catgt_path, k_basepath, k_run_name, k_gate, k_trigger}

\* the flag of option key with value, its name written as given or with
\* dashes for underscores
FlagsOf(key, value) ==
    IF value = PyTrue
    THEN {<<"-">> \o key, <<"-">> \o ReplaceChar(key, "_", "-")}
    ELSE {<<"-">> \o key \o <<"=">> \o ToStr(value),
          <<"-">> \o ReplaceChar(key, "_", "-") \o <<"=">> \o ToStr(value)}

\* C19: every option keyword given to the constructor with a value other
\* than None is in the store with that value and has its flag in the
\* command: ap=True gives -ap, dest="/o" gives -dest=/o, prb=0 gives -prb=0
\* and prb_fld=1 gives a flag of prb_fld with the value 1.
C19_CtorOptionsStored ==
    (live /\ last.op = "__init__")
    => \A n \in 1..Len(last.args) :
         LET key == last.args[n].k
             value == last.args[n].v
         IN (key \notin BaseNames /\ value # None)
            => /\ HasKey(self.options, key)
               /\ Get(self.options, key) = value
               /\ \E i \in 1..Len(command_args(self)) :
                    command_args(self)[i] \in FlagsOf(key, value)

(***************************************************************************)
(* C20                                                                     *)
(***************************************************************************)
\* the command holds the presence-only flag of key
HasFlag(key) ==
    \E i \in 1..Len(command_args(self)) : command_args(self)[i] = <<"-">> \o key

\* C20: after a set_supercat call that returned, set_supercat being the only
\* mutator called on the instance, the command holds -supercat_trim_edges
\* exactly when that call was given trim_edges=True, and
\* -supercat_skip_ni_ob_bin exactly when it was given skip_ni_ob_bin=True.
C20_RefinementsFollowLastCall ==
    (last.op = "set_supercat" /\ last.raised = NoExc)
    => /\ HasFlag(k_supercat_trim_edges)
          <=> Bound(last.args, k_trim_edges, PyFalse) = PyTrue
       /\ HasFlag(k_supercat_skip_ni_ob_bin)
          <=> Bound(last.args, k_skip_ni_ob_bin, PyFalse) = PyTrue

(***************************************************************************)
(* The public operations with set_option and remove_option reaching the    *)
(* keys `supercat` and `dest`                                              *)
(***************************************************************************)
\* remove_option("dest"), remove_option("supercat")
remove_option_dest ==
    \E key \in {k_dest, k_supercat} :
        Returns("remove_option", <<Entry(k_key, PyStr(key))>>, RetSelf,
                WithOptions(DictPop(self.options, key)))

\* set_option("supercat", value)
set_option_supercat ==
    \E value \in {PyStr(s_x), None} :
        Returns("set_option",
                <<Entry(k_key, PyStr(k_supercat)), Entry(k_value, value)>>,
                RetSelf,
                IF value # None
                THEN WithOptions(DictSet(self.options, k_supercat, value))
                ELSE self)

NextDest ==
    \/ Next
    \/ remove_option_dest
    \/ set_option_supercat

SpecDest == Init /\ [][NextDest]_vars

(***************************************************************************)
(* C21                                                                     *)
(***************************************************************************)
\* C21: in every state the public operations reach, a store that holds the
\* key `supercat` holds the key `dest` too, and a command with a -supercat=
\* flag has a -dest= flag.
C21_SupercatCarriesDest ==
    live
    => /\ HasKey(self.options, k_supercat) => HasKey(self.options, k_dest)
       /\ HasFlagStarting(<<"-", "s", "u", "p", "e", "r", "c", "a", "t", "=">>)
          => HasFlagStarting(<<"-", "d", "e", "s", "t", "=">>)

====
